---- MODULE Spec2Model ----
(***************************************************************************)
(* A model of siridb-manage (src/main.py): the tool that creates a new     *)
(* SiriDB database on the local server, or joins the local server to an    *)
(* existing cluster as a new pool or as a replica of an existing pool.     *)
(*                                                                         *)
(* Integers of the program are Python integers (unbounded).  The shard     *)
(* durations reach 2419200 * 1000^3, so they are kept as magnitudes in     *)
(* base 1000 (least significant digit first, no leading zero digit).       *)
(* Database names are sequences of one-character strings.                  *)
(***************************************************************************)
EXTENDS Integers, Sequences, FiniteSets, TLC

(* ----------------------------------------------------------------------- *)
(* Bounds of the model                                                      *)
(* ----------------------------------------------------------------------- *)
\* longest run of filler characters in a candidate database name
MaxFill == 20
\* largest integer magnitude drawn as an already-resolved duration
MaxIntDuration == 3
\* number of registration attempts followed in one run
MaxRegister == 3
\* number of remote addresses entered in one interactive run
MaxAddress == 2

(* ----------------------------------------------------------------------- *)
(* Python integers                                                          *)
(* ----------------------------------------------------------------------- *)
RECURSIVE FromNat(_)
FromNat(n) == IF n = 0 THEN << >> ELSE <<n % 1000>> \o FromNat(n \div 1000)

RECURSIVE ToNat(_)
ToNat(d) == IF d = << >> THEN 0 ELSE Head(d) + 1000 * ToNat(Tail(d))

RECURSIVE Norm(_)
Norm(d) ==
    IF d = << >> THEN << >>
    ELSE IF d[Len(d)] = 0 THEN Norm(SubSeq(d, 1, Len(d) - 1))
    ELSE d

RECURSIVE AddMagC(_, _, _)
AddMagC(a, b, c) ==
    IF a = << >> /\ b = << >> THEN FromNat(c)
    ELSE LET x == IF a = << >> THEN 0 ELSE Head(a)
             y == IF b = << >> THEN 0 ELSE Head(b)
             ta == IF a = << >> THEN << >> ELSE Tail(a)
             tb == IF b = << >> THEN << >> ELSE Tail(b)
         IN  <<(x + y + c) % 1000>> \o AddMagC(ta, tb, (x + y + c) \div 1000)

RECURSIVE MulSmallC(_, _, _)
MulSmallC(a, m, c) ==
    IF a = << >> THEN FromNat(c)
    ELSE <<(Head(a) * m + c) % 1000>>
            \o MulSmallC(Tail(a), m, (Head(a) * m + c) \div 1000)

RECURSIVE MulMag(_, _)
MulMag(a, b) ==
    IF b = << >> THEN << >>
    ELSE Norm(AddMagC(MulSmallC(a, Head(b), 0),
                      IF MulMag(a, Tail(b)) = << >> THEN << >>
                      ELSE <<0>> \o MulMag(a, Tail(b)),
                      0))

RECURSIVE PowMag(_, _)
PowMag(b, e) == IF e = 0 THEN FromNat(1) ELSE MulMag(PowMag(b, e - 1), FromNat(b))

\* a Python value that is either an int or a str
PyInt(neg, mag) == [isint |-> TRUE, neg |-> neg, mag |-> mag, str |-> ""]
PyStr(s) == [isint |-> FALSE, neg |-> FALSE, mag |-> << >>, str |-> s]
PyMul(x, y) ==
    PyInt(x.neg # y.neg /\ MulMag(x.mag, y.mag) # << >>, MulMag(x.mag, y.mag))

(* ----------------------------------------------------------------------- *)
(* constants.py                                                             *)
(* ----------------------------------------------------------------------- *)
DurationKeys == {"1h", "2h", "6h", "12h", "1d", "2d", "4d", "1w", "10d", "2w", "4w"}

DURATIONS ==
    [k \in DurationKeys |->
        CASE k = "1h" -> 3600
          [] k = "2h" -> 7200
          [] k = "6h" -> 21600
          [] k = "12h" -> 43200
          [] k = "1d" -> 86400
          [] k = "2d" -> 172800
          [] k = "4d" -> 345600
          [] k = "1w" -> 604800
          [] k = "10d" -> 864000
          [] k = "2w" -> 1209600
          [] k = "4w" -> 2419200]

DEFAULT_BUFFER_SIZE == 1024
MAX_BUFFER_SIZE == 10485760
MAX_NUMBER_DB == 4

Letters == {"a", "Z"}
Digits == {"7"}
Alphabet == Letters \cup Digits \cup {"-", "_", ".", "\n"}

\* DBNAME_VALID_NAME.match(s): '^[a-zA-Z][a-zA-Z0-9-_]{,18}[a-zA-Z0-9]$'.
\* Without re.MULTILINE, '$' matches at the end of the string and also just
\* before a newline that is the last character of the string.
DBNAME_VALID_NAME(s) ==
    \E n \in 0..18 :
        /\ Len(s) \in {n + 2, n + 3}
        /\ s[1] \in Letters
        /\ \A i \in 2..(n + 1) : s[i] \in Letters \cup Digits \cup {"-", "_"}
        /\ s[n + 2] \in Letters \cup Digits
        /\ Len(s) = n + 3 => s[n + 3] = "\n"

(* ----------------------------------------------------------------------- *)
(* main.py: pure helpers                                                    *)
(* ----------------------------------------------------------------------- *)
\* TRUE iff check_valid_dbname(dbname) returns without raising
check_valid_dbname(dbname) == DBNAME_VALID_NAME(dbname)

InList(x, list) == \E i \in 1..Len(list) : list[i] = x

\* TRUE iff check_dbname(s) returns without raising
check_dbname(s, dblist) ==
    /\ check_valid_dbname(s)
    /\ ~InList(s, dblist)
    /\ ~(Len(dblist) >= MAX_NUMBER_DB)

check_min_max(i, mi, ma) == ~(i < mi \/ i > ma)

check_valid_buffer_size(i) ==
    /\ ~(i % 512 # 0)
    /\ check_min_max(i, 512, MAX_BUFFER_SIZE)

Precisions == <<"s", "ms", "us", "ns">>

get_time_precision(s) == (CHOOSE i \in 1..4 : Precisions[i] = s) - 1

\* DURATIONS[duration] * 1000 ** tp of get_duration, for every key and precision
ScaledDurations ==
    [tp \in 0..3 |-> [k \in DurationKeys |->
        PyMul(PyInt(FALSE, FromNat(DURATIONS[k])), PyInt(FALSE, PowMag(1000, tp)))]]

get_duration_scaled_ints(tp, duration) ==
    PyMul(IF duration.isint THEN duration
          ELSE PyInt(FALSE, FromNat(DURATIONS[duration.str])),
          PyInt(FALSE, PowMag(1000, tp)))

get_duration_linear(tp, duration) ==
    IF duration.isint THEN duration
    ELSE PyMul(PyInt(FALSE, FromNat(DURATIONS[duration.str])),
               PyInt(FALSE, FromNat(IF tp = 0 THEN 1 ELSE 1000 * tp)))

get_duration(tp, duration) ==
    IF duration.isint THEN duration
    ELSE ScaledDurations[tp][duration.str]

(* ----------------------------------------------------------------------- *)
(* State                                                                    *)
(* ----------------------------------------------------------------------- *)
VARIABLES
    pc,                  \* position of the (single) control flow
    exit_code,           \* -1 while running, else the process exit code
    exit_how,            \* "quit_manage", "sys.exit", "uncaught", "" while running
    siri,                \* global siri: "none", "open", "closed"
    local_siridb_info,   \* global local_siridb_info
    remote_siridb_info,  \* global remote_siridb_info
    args,                \* parsed command line
    loc,                 \* local variables of the running workflow
    fs,                  \* the database directory and the alternative buffer directory
    content,             \* content of the files of the database directory
    srv,                 \* the local SiriDB server: version and loaded databases
    registered,          \* records the remote cluster received for registration
    ghost                \* history of the run

vars == <<pc, exit_code, exit_how, siri, local_siridb_info, remote_siridb_info,
          args, loc, fs, content, srv, registered, ghost>>

(* ----------------------------------------------------------------------- *)
(* Values                                                                   *)
(* ----------------------------------------------------------------------- *)
NameA == <<"a", "7">>
NameB == <<"Z", "-", "a">>
NameBad == <<"7", "a">>
FullList == << <<"a", "a">>, <<"a", "Z">>, <<"Z", "a">>, <<"Z", "Z">> >>

\* version.__version_info__ of the tool (the release setup.py builds)
ToolVersion == <<2, 0, 0>>
Versions == {<<2, 0, 3>>, <<2, 0, 9>>, <<2, 1, 0>>}

MajorMinor(v) == <<v[1], v[2]>>

\* what async_server_info can report for a remote server
RemoteDbLists == {<< >>, <<NameA>>, <<NameB, NameA>>}

\* results of 'list pools pool, servers, series': <<pool, servers>>
PoolSnapshots ==
    { << <<0, 1>> >>, << <<0, 2>> >>, << <<0, 2>>, <<1, 1>> >>, << <<1, 1>>, <<0, 2>> >> }

\* results of 'show timezone,time_precision,duration_log,...' on the remote
RemoteProps ==
    { [time_precision |-> "ms", duration_log |-> PyInt(FALSE, FromNat(86400000)),
       duration_num |-> PyInt(FALSE, FromNat(604800000)),
       timezone |-> "NAIVE", drop_threshold |-> "1.0"] }

\* settings.server_address, settings.listen_backend_port
ServerAddress == "this-host"
BackendPort == 9010

RemoteServer(i) == [uuid |-> 100 + i, address |-> "remote", port |-> 9010, pool |-> i - 1]
\* contents of servers.dat on the remote
RemoteServerLists == { <<RemoteServer(1)>>, <<RemoteServer(1), RemoteServer(2)>> }

NoInfo == [set |-> FALSE, version |-> <<0, 0, 0>>, dblist |-> << >>]
SiriDBInfo(version, dblist) == [set |-> TRUE, version |-> version, dblist |-> dblist]

NoServer == [uuid |-> 0, address |-> "", port |-> 0, pool |-> -1]
NoDat ==
    [schema |-> 0, uuid |-> 0, dbname |-> << >>, time_precision |-> -1,
     buffer_size |-> 0, duration_num |-> PyInt(FALSE, << >>),
     duration_log |-> PyInt(FALSE, << >>), timezone |-> "", drop_threshold |-> ""]

NoContent ==
    [database_conf |-> "", database_dat |-> NoDat, servers_dat |-> << >>,
     users_dat |-> "", groups_dat |-> ""]

NoProps ==
    [time_precision |-> "", duration_log |-> PyStr(""), duration_num |-> PyStr(""),
     timezone |-> "", drop_threshold |-> ""]

NoLoc ==
    [dbname |-> << >>, buffer_path |-> "", time_precision |-> "",
     duration_log |-> PyStr(""), duration_num |-> PyStr(""),
     timezone |-> "", drop_threshold |-> "", buffer_size |-> 0,
     uuid |-> 0, pool |-> -1, new_pool |-> FALSE, allow_retry |-> FALSE,
     flow |-> "", tp |-> -1, fn |-> 0, fetched |-> "", fetched_servers |-> << >>,
     server |-> NoServer, pools |-> << >>, props |-> NoProps, status |-> << >>]

NoGhost ==
    [created_db |-> FALSE, created_buf |-> FALSE, persisted |-> FALSE,
     rolled_back |-> FALSE, load_acked |-> FALSE, observed |-> FALSE,
     reg_ok |-> FALSE, reg_attempts |-> 0, addr_attempts |-> 0, fetch_ok |-> FALSE,
     prompts |-> 0, started |-> FALSE, failed |-> "", minted |-> 0,
     remote_ok |-> "",
     steps |-> << >>,
     sigint |-> FALSE, status_seen |-> FALSE, submitted |-> << >>,
     checked_db |-> FALSE, remote_servers |-> << >>]

Running == exit_code = -1

(* ----------------------------------------------------------------------- *)
(* Ways the control flow moves on or the process ends                       *)
(* ----------------------------------------------------------------------- *)
Goto(l) == pc' = l /\ UNCHANGED <<exit_code, exit_how, siri>>

\* quit_manage(exit_code): closes the connection if there is one, sys.exit
quit_manage(code) ==
    /\ pc' = "exit"
    /\ exit_code' = code
    /\ exit_how' = "quit_manage"
    /\ siri' = IF siri = "open" THEN "closed" ELSE siri

\* sys.exit(code) outside quit_manage
SysExit(code) ==
    /\ pc' = "exit"
    /\ exit_code' = code
    /\ exit_how' = "sys.exit"
    /\ UNCHANGED siri

\* an exception no handler catches: traceback, exit status 1
Uncaught ==
    /\ pc' = "exit"
    /\ exit_code' = 1
    /\ exit_how' = "uncaught"
    /\ UNCHANGED siri

Step(name) == [ghost EXCEPT !.steps = Append(@, name)]
Failed(g, what) == [g EXCEPT !.failed = what]

mk_path_exist_ok(dir) ==
    IF dir[1] = "absent" THEN [res |-> "ok", dir |-> <<"present", {}>>, made |-> TRUE]
    ELSE [res |-> "ok", dir |-> dir, made |-> FALSE]

\* mk_path(path) on a directory given as <<state, files>>: the new directory
\* and whether the call returned ("ok") or raised OSError ("raise")
mk_path(dir) ==
    IF dir[1] = "absent" THEN [res |-> "ok", dir |-> <<"present", {}>>, made |-> TRUE]
    ELSE IF dir[2] # {} THEN [res |-> "raise", dir |-> dir, made |-> FALSE]
    ELSE [res |-> "ok", dir |-> dir, made |-> FALSE]

(* ----------------------------------------------------------------------- *)
(* __main__                                                                 *)
(* ----------------------------------------------------------------------- *)
\* set_local_siridb_info(host, port) called from __main__
MainLocalInfo ==
    /\ pc = "main"
    /\ \/ /\ SysExit(1)
          /\ UNCHANGED local_siridb_info
       \/ /\ Goto("main_checks")
          /\ UNCHANGED local_siridb_info
       \/ /\ Goto("main_checks")
          /\ local_siridb_info' = SiriDBInfo(srv.version, srv.dblist)
    /\ UNCHANGED <<remote_siridb_info, args, loc, fs, content, srv, registered, ghost>>

tool_version_matches_major(version) == ~(version[1] # ToolVersion[1])

\* tuple(map(int, version.split('.')[:2])) != __version_info__[:2], negated
tool_version_matches(version) == ~(MajorMinor(version) # MajorMinor(ToolVersion))

\* the checks of __main__ after the local info was fetched, and the dispatch
MainChecks ==
    /\ pc = "main_checks"
    /\ IF ~local_siridb_info.set
       THEN quit_manage(2)
       ELSE IF ~tool_version_matches(local_siridb_info.version)
       THEN quit_manage(2)
       ELSE IF args.action = "menu" THEN Goto("main_menu")
       ELSE IF args.action = "create-new" THEN Goto("parse_create_new")
       ELSE Goto("parse_create_replica_or_pool")
    /\ UNCHANGED <<local_siridb_info, remote_siridb_info, args, loc, fs, content,
                   srv, registered, ghost>>

\* signal_handler: ctrl+c at a point of the run where nothing catches the
\* SystemExit that quit_manage raises
signal_handler ==
    /\ Running
    /\ quit_manage(2)
    /\ ghost' = [ghost EXCEPT !.sigint = TRUE]
    /\ UNCHANGED <<local_siridb_info, remote_siridb_info, args, loc, fs, content,
                   srv, registered>>

\* siri after signal_handler ran quit_manage(2, ...) inside a try whose
\* handler keeps the SystemExit from ending the process
SiriAfterInterrupt == IF siri = "open" THEN "closed" ELSE siri

(* ----------------------------------------------------------------------- *)
(* parse_create_new                                                         *)
(* ----------------------------------------------------------------------- *)
ParseCreateNewCheck ==
    /\ pc = "parse_create_new"
    /\ IF check_dbname(args.dbname, local_siridb_info.dblist)
          /\ check_valid_buffer_size(args.buffer_size)
       THEN Goto("pcn_mk_path")
       ELSE quit_manage(1)
    /\ UNCHANGED <<local_siridb_info, remote_siridb_info, args, loc, fs, content,
                   srv, registered, ghost>>

\* dbpath = join(default_db_path, dbname); mk_path(dbpath), inside a try
\* whose handler is quit_manage(1, e)
MkPathDb(next) ==
    /\ LET r == mk_path(<<fs.db, fs.dbfiles>>) IN
        /\ fs' = [fs EXCEPT !.db = r.dir[1], !.dbfiles = r.dir[2]]
        /\ ghost' = [ghost EXCEPT !.created_db = r.made, !.checked_db = r.res = "ok"]
        /\ IF r.res = "ok" THEN Goto(next) ELSE quit_manage(1)
    /\ UNCHANGED <<local_siridb_info, remote_siridb_info, args, loc, content,
                   srv, registered>>

\* buffer_path = args.buffer_path or dbpath; mk_path(buffer_path), inside a
\* try whose handler is quit_manage(1, e)
MkPathBuffer(next) ==
    /\ LET alt == args.buffer_path # ""
           r == IF alt THEN mk_path(<<fs.buf, fs.buffiles>>)
                ELSE mk_path(<<fs.db, fs.dbfiles>>)
       IN
        /\ fs' = IF alt THEN [fs EXCEPT !.buf = r.dir[1], !.buffiles = r.dir[2]]
                 ELSE [fs EXCEPT !.db = r.dir[1], !.dbfiles = r.dir[2]]
        /\ ghost' = IF alt THEN [ghost EXCEPT !.created_buf = r.made] ELSE ghost
        /\ IF r.res = "ok"
           THEN /\ Goto(next)
                /\ loc' = [loc EXCEPT
                             !.dbname = args.dbname,
                             !.buffer_path = IF alt THEN "alt" ELSE "db",
                             !.buffer_size = args.buffer_size]
           ELSE /\ quit_manage(1)
                /\ UNCHANGED loc
    /\ UNCHANGED <<local_siridb_info, remote_siridb_info, args, content,
                   srv, registered>>

ParseCreateNewMkPath == pc = "pcn_mk_path" /\ MkPathDb("pcn_mk_buffer_path")

ParseCreateNewMkBufferPath ==
    pc = "pcn_mk_buffer_path" /\ MkPathBuffer("pcn_call")

\* the call create_new_database(args.dbname, dbpath, args.time_precision, ...)
ParseCreateNewCall ==
    /\ pc = "pcn_call"
    /\ loc' = [loc EXCEPT !.time_precision = args.time_precision,
                          !.duration_log = args.duration_log,
                          !.duration_num = args.duration_num]
    /\ Goto("create_new_database")
    /\ UNCHANGED <<local_siridb_info, remote_siridb_info, args, fs, content,
                   srv, registered, ghost>>

(* ----------------------------------------------------------------------- *)
(* create_database                                                          *)
(* ----------------------------------------------------------------------- *)
\* the part of create_database before the files are written
CreateDatabaseCheck ==
    /\ pc = "create_database"
    /\ IF ~check_valid_dbname(loc.dbname)
          \/ ~(\E i \in 1..4 : Precisions[i] = loc.time_precision)
       THEN /\ Uncaught
            /\ UNCHANGED <<loc, ghost>>
       ELSE LET tp == get_time_precision(loc.time_precision)
                mint == loc.uuid = 0
            IN  /\ loc' = [loc EXCEPT
                             !.tp = tp,
                             !.duration_num = get_duration(tp, loc.duration_num),
                             !.duration_log = get_duration(tp, loc.duration_log),
                             !.uuid = IF mint THEN ghost.minted + 1 ELSE @]
                /\ ghost' = IF mint THEN [ghost EXCEPT !.minted = @ + 1] ELSE ghost
                /\ Goto("cd_write_conf")
    /\ UNCHANGED <<local_siridb_info, remote_siridb_info, args, fs, content,
                   srv, registered>>

\* open(database.conf, 'w') and the write of DEFAULT_CONFIG.format(**_config)
CreateDatabaseWriteConf ==
    /\ pc = "cd_write_conf"
    /\ \/ /\ Goto("cd_write_dat")
          /\ fs' = [fs EXCEPT !.dbfiles = @ \cup {"database.conf"}]
          /\ content' = [content EXCEPT !.database_conf = loc.buffer_path]
          /\ UNCHANGED ghost
       \/ /\ Uncaught                                 \* open raises OSError
          /\ ghost' = Failed(ghost, "persist")
          /\ UNCHANGED <<fs, content>>
       \/ /\ Uncaught                                 \* write raises OSError
          /\ ghost' = Failed(ghost, "persist")
          /\ fs' = [fs EXCEPT !.dbfiles = @ \cup {"database.conf"}]
          /\ UNCHANGED content
    /\ UNCHANGED <<local_siridb_info, remote_siridb_info, args, loc, srv, registered>>

\* db_obj with a uuid of its own, as if _uuid were not handed over
db_obj_own_uuid ==
    [schema |-> 1, uuid |-> ghost.minted + 1, dbname |-> loc.dbname,
     time_precision |-> loc.tp, buffer_size |-> DEFAULT_BUFFER_SIZE,
     duration_num |-> loc.duration_num, duration_log |-> loc.duration_log,
     timezone |-> loc.timezone, drop_threshold |-> loc.drop_threshold]

\* db_obj of create_database; buffer_size is the parameter of create_database,
\* which no caller passes
db_obj ==
    [schema |-> 1, uuid |-> loc.uuid, dbname |-> loc.dbname,
     time_precision |-> loc.tp, buffer_size |-> DEFAULT_BUFFER_SIZE,
     duration_num |-> loc.duration_num, duration_log |-> loc.duration_log,
     timezone |-> loc.timezone, drop_threshold |-> loc.drop_threshold]

\* open(database.dat, 'wb') and the write of qpack.packb(db_obj)
CreateDatabaseWriteDat ==
    /\ pc = "cd_write_dat"
    /\ \/ /\ Goto(IF loc.flow = "new" THEN "cnd_load" ELSE "cars_get_file")
          /\ fs' = [fs EXCEPT !.dbfiles = @ \cup {"database.dat"}]
          /\ content' = [content EXCEPT !.database_dat = db_obj]
          /\ ghost' = [Step("persist") EXCEPT !.persisted = TRUE]
       \/ /\ Uncaught
          /\ ghost' = Failed(ghost, "persist")
          /\ UNCHANGED <<fs, content>>
       \/ /\ Uncaught
          /\ ghost' = Failed(ghost, "persist")
          /\ fs' = [fs EXCEPT !.dbfiles = @ \cup {"database.dat"}]
          /\ UNCHANGED content
    /\ UNCHANGED <<local_siridb_info, remote_siridb_info, args, loc, srv, registered>>

(* ----------------------------------------------------------------------- *)
(* load_database, check_loaded, rollback                                    *)
(* ----------------------------------------------------------------------- *)
\* the list of the local server once it was asked to load dbname
Loaded(dblist, dbname) == IF InList(dbname, dblist) THEN dblist ELSE Append(dblist, dbname)

\* wait_for and send_package without their timeout, the server never answering
load_database_without_timeout(next) ==
    /\ FALSE
    /\ Goto(next)
    /\ UNCHANGED <<local_siridb_info, remote_siridb_info, args, loc, fs, content,
                   srv, registered, ghost>>

\* load_database(dbpath, host, port): connect, send CPROTO_REQ_LOADDB, await
\* the acknowledgement.  No caller catches what it raises.
load_database(next) ==
    /\ \E loads \in BOOLEAN :
         srv' = IF loads THEN [srv EXCEPT !.dblist = Loaded(@, loc.dbname)] ELSE srv
    /\ \/ /\ Goto(next)
          /\ ghost' = [Step("load") EXCEPT !.load_acked = TRUE]
       \/ /\ Uncaught
          /\ ghost' = Failed(ghost, "load")
    /\ UNCHANGED <<local_siridb_info, remote_siridb_info, args, loc, fs, content,
                   registered>>

\* a rollback that removes the directory and returns to the caller's menu
rollback_and_return(code, g) ==
    /\ fs' = [fs EXCEPT !.db = "absent", !.dbfiles = {}]
    /\ content' = NoContent
    /\ ghost' = [g EXCEPT !.rolled_back = TRUE]
    /\ Goto("pool_or_replica")

\* create_and_register_server.rollback(*args)
rollback(code, g) ==
    /\ fs' = [fs EXCEPT !.db = "absent", !.dbfiles = {}]
    /\ content' = NoContent
    /\ ghost' = [g EXCEPT !.rolled_back = TRUE]
    /\ quit_manage(code)

(* ----------------------------------------------------------------------- *)
(* create_new_database                                                      *)
(* ----------------------------------------------------------------------- *)
\* the call of create_database with the defaults for timezone, drop_threshold
CreateNewDatabase ==
    /\ pc = "create_new_database"
    /\ loc' = [loc EXCEPT !.flow = "new", !.timezone = "NAIVE",
                          !.drop_threshold = "1.0"]
    /\ ghost' = [ghost EXCEPT !.started = TRUE]
    /\ Goto("create_database")
    /\ UNCHANGED <<local_siridb_info, remote_siridb_info, args, fs, content,
                   srv, registered>>

CreateNewDatabaseLoad ==
    /\ pc = "cnd_load"
    /\ load_database("cnd_check_loaded")

\* time.sleep(1); check_loaded(dbname) in try/except Exception
CreateNewDatabaseCheckLoaded ==
    /\ pc = "cnd_check_loaded"
    /\ \/ /\ SysExit(1)                   \* set_local_siridb_info: exception
          /\ ghost' = Failed(ghost, "recheck")
          /\ UNCHANGED local_siridb_info
       \/ \E info \in {local_siridb_info, SiriDBInfo(srv.version, srv.dblist)} :
            /\ local_siridb_info' = info
            /\ IF ~InList(loc.dbname, info.dblist)
               THEN /\ quit_manage(1)
                    /\ ghost' = Failed(ghost, "not loaded")
               ELSE /\ quit_manage(0)
                    /\ ghost' = [Step("ready") EXCEPT !.observed = TRUE]
    /\ UNCHANGED <<remote_siridb_info, args, loc, fs, content, srv, registered>>

(* ----------------------------------------------------------------------- *)
(* set_remote_siridb_info, connect_to_siridb                                *)
(* ----------------------------------------------------------------------- *)
\* what set_remote_siridb_info leaves in remote_siridb_info when
\* async_server_info gave result (NoInfo: it raised or returned nothing)
RemoteInfoAfter(result) == IF result.set THEN result ELSE remote_siridb_info

remote_info_accepted_major_minor(info) ==
    /\ info.set
    /\ info.dblist # << >>
    /\ ~(MajorMinor(local_siridb_info.version) # MajorMinor(info.version))

\* TRUE iff set_remote_siridb_info returns without raising, info being what
\* it left in remote_siridb_info
remote_info_accepted(info) ==
    /\ info.set
    /\ info.dblist # << >>
    /\ ~(local_siridb_info.version # info.version)

RemoteResults ==
    {NoInfo} \cup {SiriDBInfo(v, l) : v \in Versions, l \in RemoteDbLists}

\* connect_to_siridb inside a try whose handler is quit_manage(1, e):
\* connect, 'show version', the version check, 'list users name, access'
ConnectScripted(next) ==
    /\ \/ /\ quit_manage(1)                      \* connect() raises
          /\ UNCHANGED ghost
       \/ /\ pc' = "exit"                        \* a later check raises
          /\ exit_code' = 1
          /\ exit_how' = "quit_manage"
          /\ siri' = "closed"
          /\ UNCHANGED ghost
       \/ /\ pc' = "exit"        \* ctrl+c during 'show version': the handler
          /\ exit_code' = 1      \* 'except QueryError' raises NameError, which
          /\ exit_how' = "quit_manage"      \* 'except Exception' takes
          /\ siri' = "closed"
          /\ ghost' = [ghost EXCEPT !.sigint = TRUE]
       \/ /\ pc' = next
          /\ siri' = "open"
          /\ UNCHANGED <<exit_code, exit_how, ghost>>
    /\ UNCHANGED <<local_siridb_info, remote_siridb_info, args, loc, fs, content,
                   srv, registered>>

(* ----------------------------------------------------------------------- *)
(* parse_create_replica_or_pool                                             *)
(* ----------------------------------------------------------------------- *)
HasPool_never == FALSE

\* hasattr(args, 'pool'): only create-replica takes --pool, and the
\* sub-parsers suppress absent arguments
HasPool == args.action = "create-replica"

\* if not args.password: ask_string('Password')
ParseJoinPassword ==
    /\ pc = "parse_create_replica_or_pool"
    /\ ghost' = IF args.password THEN ghost ELSE [ghost EXCEPT !.prompts = @ + 1]
    /\ Goto("pcr_remote_info")
    /\ UNCHANGED <<local_siridb_info, remote_siridb_info, args, loc, fs, content,
                   srv, registered>>

\* interrupted: ctrl+c while async_server_info runs inside the try of
\* set_remote_siridb_info, whose bare except takes the SystemExit
ParseJoinRemoteInfo ==
    /\ pc = "pcr_remote_info"
    /\ \E result \in RemoteResults, interrupted \in BOOLEAN :
        /\ interrupted => result = NoInfo
        /\ remote_siridb_info' = RemoteInfoAfter(result)
        /\ IF remote_info_accepted(RemoteInfoAfter(result))
           THEN /\ pc' = "pcr_check"
                /\ siri' = IF interrupted THEN SiriAfterInterrupt ELSE siri
                /\ UNCHANGED <<exit_code, exit_how>>
                /\ ghost' = [ghost EXCEPT !.fetch_ok = result.set,
                                          !.remote_ok = "accepted",
                                          !.sigint = @ \/ interrupted]
           ELSE /\ quit_manage(1)
                /\ ghost' = [ghost EXCEPT !.fetch_ok = result.set,
                                          !.remote_ok = "rejected",
                                          !.sigint = @ \/ interrupted]
    /\ UNCHANGED <<local_siridb_info, args, loc, fs, content, srv, registered>>

ParseJoinCheck ==
    /\ pc = "pcr_check"
    /\ IF check_dbname(args.dbname, local_siridb_info.dblist)
          /\ check_valid_buffer_size(args.buffer_size)
       THEN Goto("pcr_mk_path")
       ELSE quit_manage(1)
    /\ UNCHANGED <<local_siridb_info, remote_siridb_info, args, loc, fs, content,
                   srv, registered, ghost>>

ParseJoinMkPath == pc = "pcr_mk_path" /\ MkPathDb("pcr_mk_buffer_path")

ParseJoinMkBufferPath == pc = "pcr_mk_buffer_path" /\ MkPathBuffer("pcr_connect")

ParseJoinConnect == pc = "pcr_connect" /\ ConnectScripted("pcr_list_pools")

PoolServers_at_most_two(pools, id) ==
    LET i == CHOOSE i \in 1..Len(pools) :
                 /\ pools[i][1] = id
                 /\ \A j \in (i + 1)..Len(pools) : pools[j][1] # id
    IN  IF pools[i][2] <= 2 THEN 1 ELSE pools[i][2]

\* pools[id] of pools = {pool[0]: pool[1] for pool in result['pools']}
PoolServers(pools, id) ==
    LET i == CHOOSE i \in 1..Len(pools) :
                 /\ pools[i][1] = id
                 /\ \A j \in (i + 1)..Len(pools) : pools[j][1] # id
    IN  pools[i][2]

HasPoolId(pools, id) == \E i \in 1..Len(pools) : pools[i][1] = id

create_new_pool_last(pools) ==
    IF pools = << >> THEN 0 ELSE pools[Len(pools)][1] + 1

\* pool = len(pools) of create_new_pool, pool = len(result['pools']) of
\* parse_create_replica_or_pool
create_new_pool(pools) == Len(pools)

\* result = siri.query('list pools pool, servers, series') and the choice of
\* the pool
ParseJoinListPools ==
    /\ pc = "pcr_list_pools"
    /\ \/ /\ quit_manage(1)                      \* the query raises
          /\ UNCHANGED loc
       \/ \E pools \in PoolSnapshots :
            IF HasPool
            THEN IF ~HasPoolId(pools, args.pool) \/ PoolServers(pools, args.pool) # 1
                 THEN /\ quit_manage(1)
                      /\ loc' = [loc EXCEPT !.pools = pools]
                 ELSE /\ Goto("pcr_show")
                      /\ loc' = [loc EXCEPT !.pools = pools, !.pool = args.pool]
            ELSE /\ Goto("pcr_show")
                 /\ loc' = [loc EXCEPT !.pools = pools, !.pool = create_new_pool(pools)]
    /\ UNCHANGED <<local_siridb_info, remote_siridb_info, args, fs, content,
                   srv, registered, ghost>>

allow_retry_scripted_default == TRUE

\* the allow_retry=False of the call in parse_create_replica_or_pool
allow_retry_scripted == FALSE

\* dbconfig = siri.query('show ...'); props; the call of
\* create_and_register_server(args.dbname, ..., allow_retry=False)
ParseJoinShow ==
    /\ pc = "pcr_show"
    /\ \/ /\ quit_manage(1)
          /\ UNCHANGED loc
       \/ \E props \in RemoteProps :
            /\ Goto("create_and_register_server")
            /\ loc' = [loc EXCEPT
                         !.time_precision = props.time_precision,
                         !.duration_log = props.duration_log,
                         !.duration_num = props.duration_num,
                         !.timezone = props.timezone,
                         !.drop_threshold = props.drop_threshold,
                         !.props = props,
                         !.buffer_size = args.buffer_size,
                         !.new_pool = ~HasPool,
                         !.allow_retry = allow_retry_scripted]
    /\ UNCHANGED <<local_siridb_info, remote_siridb_info, args, fs, content,
                   srv, registered, ghost>>

(* ----------------------------------------------------------------------- *)
(* create_and_register_server                                               *)
(* ----------------------------------------------------------------------- *)
FileNames == <<"servers.dat", "users.dat", "groups.dat">>
\* what the remote serves for each of them (servers.dat: see RemoteServerLists)
RemoteBytes == <<"servers@remote", "users@remote", "groups@remote">>

\* address, port, _uuid = uuid.uuid1(), and the call of create_database
CreateAndRegisterServer ==
    /\ pc = "create_and_register_server"
    /\ loc' = [loc EXCEPT !.flow = "join", !.uuid = ghost.minted + 1, !.fn = 1]
    /\ ghost' = [ghost EXCEPT !.started = TRUE, !.minted = @ + 1]
    /\ Goto("create_database")
    /\ UNCHANGED <<local_siridb_info, remote_siridb_info, args, fs, content,
                   srv, registered>>

\* content = siri._get_file(fn), ServerError handled by rollback(1, e)
CarsGetFile ==
    /\ pc = "cars_get_file"
    /\ \/ /\ rollback(1, Failed(ghost, "replicate"))
          /\ UNCHANGED loc
       \/ /\ Uncaught                         \* an exception other than ServerError
          /\ ghost' = Failed(ghost, "replicate")
          /\ UNCHANGED <<loc, fs, content>>
       \/ /\ Goto("cars_write_file")
          /\ \E l \in RemoteServerLists :
               /\ loc' = [loc EXCEPT !.fetched = RemoteBytes[loc.fn],
                                     !.fetched_servers =
                                         IF loc.fn = 1 THEN l ELSE @]
               /\ ghost' = [ghost EXCEPT !.remote_servers =
                                            IF loc.fn = 1 THEN l ELSE @]
          /\ UNCHANGED <<fs, content>>
    /\ UNCHANGED <<local_siridb_info, remote_siridb_info, args, srv, registered>>

WithFile_onto_descriptor(c, fn, servers, bytes) ==
    CASE fn = 1 -> [c EXCEPT !.servers_dat = servers]
      [] fn = 2 -> [c EXCEPT !.users_dat = bytes]
      [] fn = 3 -> [c EXCEPT !.groups_dat = bytes, !.database_dat = NoDat]

\* the files of the database directory once open(join(dbpath, fn), 'wb')
\* wrote content
WithFile(c, fn, servers, bytes) ==
    CASE fn = 1 -> [c EXCEPT !.servers_dat = servers]
      [] fn = 2 -> [c EXCEPT !.users_dat = bytes]
      [] fn = 3 -> [c EXCEPT !.groups_dat = bytes]

\* with open(join(dbpath, fn), 'wb') as f: f.write(content)
CarsWriteFile ==
    /\ pc = "cars_write_file"
    /\ \/ /\ Goto(IF loc.fn < 3 THEN "cars_get_file" ELSE "cars_reindex")
          /\ fs' = [fs EXCEPT !.dbfiles = @ \cup {FileNames[loc.fn]}]
          /\ content' = WithFile(content, loc.fn, loc.fetched_servers, loc.fetched)
          /\ loc' = [loc EXCEPT !.fn = IF @ < 3 THEN @ + 1 ELSE @]
          /\ UNCHANGED ghost
       \/ /\ Uncaught                                 \* open raises OSError
          /\ ghost' = Failed(ghost, "replicate")
          /\ UNCHANGED <<fs, content, loc>>
       \/ /\ Uncaught                                 \* write raises OSError
          /\ ghost' = Failed(ghost, "replicate")
          /\ fs' = [fs EXCEPT !.dbfiles = @ \cup {FileNames[loc.fn]}]
          /\ content' = WithFile(content, loc.fn, << >>, "")
          /\ UNCHANGED loc
    /\ UNCHANGED <<local_siridb_info, remote_siridb_info, args, srv, registered>>

\* if new_pool: create the empty file .reindex
CarsReindex ==
    /\ pc = "cars_reindex"
    /\ IF loc.new_pool
       THEN \/ /\ Goto("cars_read_servers")
               /\ fs' = [fs EXCEPT !.dbfiles = @ \cup {".reindex"}]
               /\ UNCHANGED ghost
            \/ /\ Uncaught
               /\ ghost' = Failed(ghost, "replicate")
               /\ UNCHANGED fs
       ELSE /\ Goto("cars_read_servers")
            /\ UNCHANGED <<fs, ghost>>
    /\ UNCHANGED <<local_siridb_info, remote_siridb_info, args, loc, content,
                   srv, registered>>

append_server_first(servers_obj, server) == <<server>> \o servers_obj

\* servers_obj.append(server)
append_server(servers_obj, server) == Append(servers_obj, server)

\* servers_obj = qpack.unpackb(read servers.dat); server = [...];
\* servers_obj.append(server)
CarsReadServers ==
    /\ pc = "cars_read_servers"
    /\ \/ /\ Goto("cars_write_servers")
          /\ LET server == [uuid |-> loc.uuid, address |-> ServerAddress,
                            port |-> BackendPort, pool |-> loc.pool]
             IN  loc' = [loc EXCEPT !.server = server,
                                    !.fetched_servers =
                                        append_server(content.servers_dat, server)]
          /\ UNCHANGED ghost
       \/ /\ Uncaught
          /\ ghost' = Failed(ghost, "replicate")
          /\ UNCHANGED loc
    /\ UNCHANGED <<local_siridb_info, remote_siridb_info, args, fs, content,
                   srv, registered>>

\* with open(servers.dat, 'wb') as f: f.write(qpack.packb(servers_obj))
CarsWriteServers ==
    /\ pc = "cars_write_servers"
    /\ \/ /\ Goto("cars_list_servers")
          /\ content' = [content EXCEPT !.servers_dat = loc.fetched_servers]
          /\ ghost' = Step("replicate")
       \/ /\ Uncaught                                 \* open raises: file untouched
          /\ ghost' = Failed(ghost, "replicate")
          /\ UNCHANGED content
       \/ /\ Uncaught                                 \* write raises: file truncated
          /\ ghost' = Failed(ghost, "replicate")
          /\ content' = [content EXCEPT !.servers_dat = << >>]
    /\ UNCHANGED <<local_siridb_info, remote_siridb_info, args, loc, fs,
                   srv, registered>>

\* results of 'list servers name, status': <<name, status>>
StatusResults ==
    { << <<"s0", "running">> >>,
      << <<"s0", "running">>, <<"s1", "running">> >>,
      << <<"s0", "running">>, <<"s1", "synchronizing">> >>,
      << <<"s0", "re-indexing">>, <<"s1", "running">> >> }

all_servers_running_first(servers) == ~(servers[1][2] # "running")

\* expected = 'running'; no srv of result['servers'] has srv[1] != expected
all_servers_running(servers) ==
    \A i \in 1..Len(servers) : ~(servers[i][2] # "running")

\* result = siri.query('list servers name, status') and the status check
CarsListServers ==
    /\ pc = "cars_list_servers"
    /\ \/ /\ Uncaught                                 \* the query raises
          /\ ghost' = Failed(ghost, "status")
          /\ UNCHANGED <<fs, content, loc>>
       \/ \E result \in StatusResults :
            /\ loc' = [loc EXCEPT !.status = result]
            /\ IF all_servers_running(result)
               THEN /\ Goto("cars_load")
                    /\ ghost' = [Step("status") EXCEPT !.status_seen = TRUE]
                    /\ UNCHANGED <<fs, content>>
               ELSE rollback(1, [Failed(ghost, "status") EXCEPT !.status_seen = TRUE])
    /\ UNCHANGED <<local_siridb_info, remote_siridb_info, args, srv, registered>>

CarsLoad ==
    /\ pc = "cars_load"
    /\ load_database("cars_check_loaded")

\* time.sleep(1); check_loaded(dbname) in try/except Exception: rollback(1, e)
CarsCheckLoaded ==
    /\ pc = "cars_check_loaded"
    /\ \/ /\ SysExit(1)                   \* set_local_siridb_info: exception
          /\ ghost' = Failed(ghost, "recheck")
          /\ UNCHANGED <<local_siridb_info, fs, content>>
       \/ \E info \in {local_siridb_info, SiriDBInfo(srv.version, srv.dblist)} :
            /\ local_siridb_info' = info
            /\ IF ~InList(loc.dbname, info.dblist)
               THEN rollback(1, Failed(ghost, "not loaded"))
               ELSE /\ Goto("cars_register")
                    /\ ghost' = [Step("ready") EXCEPT !.observed = TRUE]
                    /\ UNCHANGED <<fs, content>>
    /\ UNCHANGED <<remote_siridb_info, args, loc, srv, registered>>

\* what the remote cluster holds once it took the record
Register(list, server) == IF InList(server, list) THEN list ELSE Append(list, server)

register_server_arg_fresh_uuid ==
    [loc.server EXCEPT !.uuid = @ + ghost.reg_attempts]

\* the argument of siri._register_server(server): the list built once,
\* before the loop
register_server_arg == loc.server

\* siri._register_server(server) in the while True loop
CarsRegister ==
    /\ pc = "cars_register"
    /\ \/ /\ registered' = Register(registered, register_server_arg)
          /\ ghost' = [Step("register") EXCEPT
                          !.reg_ok = TRUE, !.reg_attempts = @ + 1,
                          !.submitted = Append(@, register_server_arg)]
          /\ quit_manage(0)
          /\ UNCHANGED <<fs, content>>
       \/ \E taken \in BOOLEAN :
            /\ registered' = IF taken THEN Register(registered, register_server_arg)
                             ELSE registered
            /\ IF loc.allow_retry
               THEN /\ Goto("cars_retry_menu")
                    /\ ghost' = [Failed(ghost, "register") EXCEPT
                                    !.reg_attempts = @ + 1, !.prompts = @ + 1,
                                    !.submitted = Append(@, register_server_arg)]
                    /\ UNCHANGED <<fs, content>>
               ELSE rollback(1, [Failed(ghost, "register") EXCEPT
                                    !.reg_attempts = @ + 1,
                                    !.submitted = Append(@, register_server_arg)])
    /\ UNCHANGED <<local_siridb_info, remote_siridb_info, args, loc, srv>>

\* menu 'Do you want to retry the registration?'
CarsRetryMenu ==
    /\ pc = "cars_retry_menu"
    /\ \/ /\ ghost.reg_attempts < MaxRegister
          /\ Goto("cars_register")
          /\ UNCHANGED <<fs, content, ghost>>
       \/ rollback(0, ghost)
    /\ UNCHANGED <<local_siridb_info, remote_siridb_info, args, loc, srv, registered>>

(* ----------------------------------------------------------------------- *)
(* The interactive menus                                                    *)
(* ----------------------------------------------------------------------- *)
\* what the user may type
AskNames == {NameA, NameBad}
AskPrecisions == {"ms", "ns"}
AskDurations == {"1d", "1w"}
AskBufferSizes == {2048, 1000}

main_menu ==
    /\ pc = "main_menu"
    /\ \/ quit_manage(0)
       \/ Goto("jd_ask_address")
       \/ Goto("form_ask_dbname")
    /\ UNCHANGED <<local_siridb_info, remote_siridb_info, args, loc, fs, content,
                   srv, registered, ghost>>

\* ask_string('Type a name for the new database', func=check_dbname): a name
\* that check_dbname rejects is asked again
FormAskDbname ==
    /\ pc = "form_ask_dbname"
    /\ \E name \in AskNames :
         IF check_dbname(name, local_siridb_info.dblist)
         THEN /\ Goto("form_mk_path")
              /\ loc' = [loc EXCEPT !.dbname = name]
         ELSE /\ Goto("form_ask_dbname")
              /\ UNCHANGED loc
    /\ UNCHANGED <<local_siridb_info, remote_siridb_info, args, fs, content,
                   srv, registered, ghost>>

\* mk_path(dbpath) with quit_manage(1, e) as handler
FormMkPath ==
    /\ pc = "form_mk_path"
    /\ LET r == mk_path(<<fs.db, fs.dbfiles>>) IN
        /\ fs' = [fs EXCEPT !.db = r.dir[1], !.dbfiles = r.dir[2]]
        /\ ghost' = [ghost EXCEPT !.created_db = r.made, !.checked_db = r.res = "ok"]
        /\ IF r.res = "ok" THEN Goto("form_ask_buffer_path") ELSE quit_manage(1)
    /\ UNCHANGED <<local_siridb_info, remote_siridb_info, args, loc, content,
                   srv, registered>>

\* ask_buffer_path(dbpath): ask_string(default=dbpath, func=mk_path); a path
\* that mk_path rejects is asked again
ask_buffer_path(next) ==
    /\ \E alt \in BOOLEAN :
        LET r == IF alt THEN mk_path(<<fs.buf, fs.buffiles>>)
                 ELSE mk_path(<<fs.db, fs.dbfiles>>)
        IN
        /\ fs' = IF alt THEN [fs EXCEPT !.buf = r.dir[1], !.buffiles = r.dir[2]]
                 ELSE [fs EXCEPT !.db = r.dir[1], !.dbfiles = r.dir[2]]
        /\ ghost' = IF alt THEN [ghost EXCEPT !.created_buf = @ \/ r.made] ELSE ghost
        /\ IF r.res = "ok"
           THEN /\ Goto(next)
                /\ loc' = [loc EXCEPT !.buffer_path = IF alt THEN "alt" ELSE "db"]
           ELSE /\ UNCHANGED <<pc, exit_code, exit_how, siri, loc>>
    /\ UNCHANGED <<local_siridb_info, remote_siridb_info, args, content,
                   srv, registered>>

FormAskBufferPath == pc = "form_ask_buffer_path" /\ ask_buffer_path("form_ask_settings")

\* the menus for time precision and durations, ask_buffer_size(cfg); a size
\* that check_valid_buffer_size rejects is asked again
FormAskSettings ==
    /\ pc = "form_ask_settings"
    /\ \E tp \in AskPrecisions, dn \in AskDurations, dl \in AskDurations,
          size \in AskBufferSizes :
         IF check_valid_buffer_size(size)
         THEN /\ Goto("create_new_database")
              /\ loc' = [loc EXCEPT !.time_precision = tp,
                                    !.duration_num = PyStr(dn),
                                    !.duration_log = PyStr(dl),
                                    !.buffer_size = size]
         ELSE /\ Goto("form_ask_settings")
              /\ UNCHANGED loc
    /\ UNCHANGED <<local_siridb_info, remote_siridb_info, args, fs, content,
                   srv, registered, ghost>>

(* ----------------------------------------------------------------------- *)
(* join_database                                                            *)
(* ----------------------------------------------------------------------- *)
\* ask_string('Remote host or IP-address'), ask_int('Remote client port'),
\* set_remote_siridb_info; an exception prints and continues the loop
JoinAskAddress ==
    /\ pc = "jd_ask_address"
    /\ ghost.addr_attempts < MaxAddress
    /\ \E result \in RemoteResults, interrupted \in BOOLEAN :
        /\ interrupted => result = NoInfo
        /\ remote_siridb_info' = RemoteInfoAfter(result)
        /\ ghost' = [ghost EXCEPT
                        !.addr_attempts = @ + 1, !.fetch_ok = result.set,
                        !.remote_ok =
                            IF remote_info_accepted(RemoteInfoAfter(result))
                            THEN "accepted" ELSE "rejected",
                        !.sigint = @ \/ interrupted]
        /\ pc' = IF remote_info_accepted(RemoteInfoAfter(result))
                 THEN "jd_menu_db" ELSE "jd_ask_address"
        /\ siri' = IF interrupted THEN SiriAfterInterrupt ELSE siri
        /\ UNCHANGED <<exit_code, exit_how>>
    /\ UNCHANGED <<local_siridb_info, args, loc, fs, content, srv, registered>>

\* menu('Database') over remote_siridb_info.dblist; a database the local
\* server already has continues the loop
JoinMenuDb ==
    /\ pc = "jd_menu_db"
    /\ \E db \in 1..Len(remote_siridb_info.dblist) :
        /\ loc' = [loc EXCEPT !.dbname = remote_siridb_info.dblist[db]]
        /\ IF InList(remote_siridb_info.dblist[db], local_siridb_info.dblist)
           THEN Goto("jd_ask_address")
           ELSE Goto("jd_connect")
    /\ UNCHANGED <<local_siridb_info, remote_siridb_info, args, fs, content,
                   srv, registered, ghost>>

\* user name, password, connect_to_siridb; an exception prints and continues
\* the loop
JoinConnect ==
    /\ pc = "jd_connect"
    /\ \/ /\ Goto("jd_ask_address")              \* connect() raises
          /\ UNCHANGED ghost
       \/ /\ pc' = "jd_ask_address"              \* a later check raises
          /\ siri' = "open"
          /\ UNCHANGED <<exit_code, exit_how, ghost>>
       \/ /\ pc' = "jd_ask_address"   \* ctrl+c during 'show version': the
          /\ siri' = "closed"         \* handler 'except QueryError' raises
          /\ UNCHANGED <<exit_code, exit_how>>       \* NameError, printed
          /\ ghost' = [ghost EXCEPT !.sigint = TRUE]
       \/ /\ pc' = "jd_mk_path"
          /\ siri' = "open"
          /\ UNCHANGED <<exit_code, exit_how, ghost>>
    /\ UNCHANGED <<local_siridb_info, remote_siridb_info, args, loc, fs, content,
                   srv, registered>>

\* dbpath = join(default_db_path, dbname); mk_path(dbpath), no handler
JoinMkPath ==
    /\ pc = "jd_mk_path"
    /\ LET r == mk_path(<<fs.db, fs.dbfiles>>) IN
        /\ fs' = [fs EXCEPT !.db = r.dir[1], !.dbfiles = r.dir[2]]
        /\ ghost' = [ghost EXCEPT !.created_db = r.made, !.checked_db = r.res = "ok"]
        /\ IF r.res = "ok" THEN Goto("jd_ask_buffer_path") ELSE Uncaught
    /\ UNCHANGED <<local_siridb_info, remote_siridb_info, args, loc, content,
                   srv, registered>>

JoinAskBufferPath == pc = "jd_ask_buffer_path" /\ ask_buffer_path("jd_list_pools")

RECURSIVE Insert(_, _)
Insert(sorted, x) ==
    IF sorted = << >> THEN <<x>>
    ELSE IF x[1] < sorted[Len(sorted)][1]
         THEN Append(Insert(SubSeq(sorted, 1, Len(sorted) - 1), x), sorted[Len(sorted)])
         ELSE Append(sorted, x)

\* sorted(pools, key=lambda t: t[0])
RECURSIVE SortPools(_)
SortPools(pools) ==
    IF pools = << >> THEN << >>
    ELSE Insert(SortPools(SubSeq(pools, 1, Len(pools) - 1)), pools[Len(pools)])

\* result = siri.query('list pools pool, servers, series '): the handler names
\* QueryError, which main.py never imports, so whatever the query raises ends
\* in a NameError nothing catches
JoinListPools ==
    /\ pc = "jd_list_pools"
    /\ \/ /\ Uncaught
          /\ UNCHANGED <<loc, ghost>>
       \/ /\ pc' = "exit"           \* ctrl+c during the query: quit_manage(2)
          /\ exit_code' = 1         \* closes siri, its SystemExit ends in the
          /\ exit_how' = "uncaught"                  \* same NameError
          /\ siri' = SiriAfterInterrupt
          /\ ghost' = [ghost EXCEPT !.sigint = TRUE]
          /\ UNCHANGED loc
       \/ \E pools \in PoolSnapshots :
            /\ Goto("pool_or_replica")
            /\ loc' = [loc EXCEPT !.pools = SortPools(pools)]
            /\ UNCHANGED ghost
    /\ UNCHANGED <<local_siridb_info, remote_siridb_info, args, fs, content,
                   srv, registered>>

\* the menu of pool_or_replica: p, r, s, q
pool_or_replica ==
    /\ pc = "pool_or_replica"
    /\ \/ /\ quit_manage(0)
          /\ UNCHANGED loc
       \/ /\ Goto("pool_or_replica")             \* show_pool_status(pools)
          /\ UNCHANGED loc
       \/ /\ Goto("cnr_menu")
          /\ UNCHANGED loc
       \/ /\ Goto("cjd_show")                    \* create_new_pool
          /\ loc' = [loc EXCEPT !.pool = create_new_pool(loc.pools), !.new_pool = TRUE]
    /\ UNCHANGED <<local_siridb_info, remote_siridb_info, args, fs, content,
                   srv, registered, ghost>>

\* create_new_replica: the menu of the pools that have one server, or Back
create_new_replica ==
    /\ pc = "cnr_menu"
    /\ \/ /\ Goto("pool_or_replica")
          /\ UNCHANGED loc
       \/ \E i \in 1..Len(loc.pools) :
            /\ loc.pools[i][2] = 1
            /\ Goto("cjd_show")
            /\ loc' = [loc EXCEPT !.pool = loc.pools[i][1], !.new_pool = FALSE]
    /\ UNCHANGED <<local_siridb_info, remote_siridb_info, args, fs, content,
                   srv, registered, ghost>>

\* create_joined_database: dbconfig = siri.query('show ...') (no handler),
\* ask_buffer_size(cfg)
CreateJoinedDatabaseShow ==
    /\ pc = "cjd_show"
    /\ \/ /\ Uncaught
          /\ UNCHANGED loc
       \/ \E props \in RemoteProps, size \in AskBufferSizes :
            /\ check_valid_buffer_size(size)
            /\ Goto("cjd_confirm")
            /\ loc' = [loc EXCEPT
                         !.time_precision = props.time_precision,
                         !.duration_log = props.duration_log,
                         !.duration_num = props.duration_num,
                         !.timezone = props.timezone,
                         !.drop_threshold = props.drop_threshold,
                         !.props = props,
                         !.buffer_size = size]
    /\ UNCHANGED <<local_siridb_info, remote_siridb_info, args, fs, content,
                   srv, registered, ghost>>

\* menu 'Are you sure you want to continue and ...?'
CreateJoinedDatabaseConfirm ==
    /\ pc = "cjd_confirm"
    /\ \/ /\ Goto("pool_or_replica")             \* 'n': return None
          /\ UNCHANGED loc
       \/ /\ Goto("create_and_register_server")
          /\ loc' = [loc EXCEPT !.allow_retry = TRUE]
    /\ UNCHANGED <<local_siridb_info, remote_siridb_info, args, fs, content,
                   srv, registered, ghost>>

(* ----------------------------------------------------------------------- *)
(* The runs                                                                 *)
(* ----------------------------------------------------------------------- *)
NoArgs ==
    [action |-> "menu", dbname |-> << >>, buffer_path |-> "", buffer_size |-> 0,
     time_precision |-> "", duration_log |-> PyStr(""), duration_num |-> PyStr(""),
     pool |-> -1, password |-> TRUE]

ArgNames == {NameA, NameB, NameBad}
ArgBufferPaths == {"", "alt"}
ArgBufferSizes == {2048, 1000}
ArgPools == 0..2

CreateNewArgs ==
    { [NoArgs EXCEPT !.action = "create-new", !.dbname = n, !.buffer_path = b,
                     !.buffer_size = z, !.time_precision = tp,
                     !.duration_log = PyStr("1d"), !.duration_num = PyStr("1w")] :
        n \in ArgNames, b \in ArgBufferPaths, z \in ArgBufferSizes,
        tp \in AskPrecisions }

JoinArgs ==
    { [NoArgs EXCEPT !.action = "create-replica", !.dbname = n, !.buffer_path = b,
                     !.buffer_size = z, !.pool = p, !.password = w] :
        n \in ArgNames, b \in ArgBufferPaths, z \in ArgBufferSizes,
        p \in ArgPools, w \in BOOLEAN }
    \cup
    { [NoArgs EXCEPT !.action = "create-pool", !.dbname = n, !.buffer_path = b,
                     !.buffer_size = z, !.password = w] :
        n \in ArgNames, b \in ArgBufferPaths, z \in ArgBufferSizes, w \in BOOLEAN }

\* a directory on disk before the run: absent, empty, or holding something
Dirs == {<<"absent", {}>>, <<"present", {}>>, <<"present", {"other"}>>}

LocalDbLists == {<< >>, <<NameA>>, FullList}

InitWith(argset) ==
    /\ pc = "main"
    /\ exit_code = -1
    /\ exit_how = ""
    /\ siri = "none"
    /\ local_siridb_info = NoInfo
    /\ remote_siridb_info = NoInfo
    /\ args \in argset
    /\ loc = NoLoc
    /\ \E d \in Dirs, b \in Dirs :
         fs = [db |-> d[1], dbfiles |-> d[2], buf |-> b[1], buffiles |-> b[2]]
    /\ content = NoContent
    /\ \E v \in Versions, l \in LocalDbLists : srv = [version |-> v, dblist |-> l]
    /\ registered = << >>
    /\ ghost = NoGhost

Init == InitWith({NoArgs} \cup CreateNewArgs \cup JoinArgs)

Next ==
    \/ MainLocalInfo \/ MainChecks \/ signal_handler
    \/ ParseCreateNewCheck \/ ParseCreateNewMkPath \/ ParseCreateNewMkBufferPath
    \/ ParseCreateNewCall
    \/ CreateDatabaseCheck \/ CreateDatabaseWriteConf \/ CreateDatabaseWriteDat
    \/ CreateNewDatabase \/ CreateNewDatabaseLoad \/ CreateNewDatabaseCheckLoaded
    \/ ParseJoinPassword \/ ParseJoinRemoteInfo \/ ParseJoinCheck
    \/ ParseJoinMkPath \/ ParseJoinMkBufferPath \/ ParseJoinConnect
    \/ ParseJoinListPools \/ ParseJoinShow
    \/ CreateAndRegisterServer \/ CarsGetFile \/ CarsWriteFile \/ CarsReindex
    \/ CarsReadServers \/ CarsWriteServers \/ CarsListServers \/ CarsLoad
    \/ CarsCheckLoaded \/ CarsRegister \/ CarsRetryMenu
    \/ main_menu \/ FormAskDbname \/ FormMkPath \/ FormAskBufferPath
    \/ FormAskSettings
    \/ JoinAskAddress \/ JoinMenuDb \/ JoinConnect \/ JoinMkPath
    \/ JoinAskBufferPath \/ JoinListPools \/ pool_or_replica \/ create_new_replica
    \/ CreateJoinedDatabaseShow \/ CreateJoinedDatabaseConfirm

Spec == Init /\ [][Next]_vars

\* the steps of create_new_database and create_and_register_server that
\* follow the call of create_database
AfterCreateDatabase ==
    \/ CreateNewDatabaseLoad \/ CreateNewDatabaseCheckLoaded
    \/ CarsGetFile \/ CarsWriteFile \/ CarsReindex
    \/ CarsReadServers \/ CarsWriteServers \/ CarsListServers \/ CarsLoad
    \/ CarsCheckLoaded \/ CarsRegister \/ CarsRetryMenu

\* runs that can get as far as create_database: the menus, or arguments
\* that pass check_valid_dbname and check_valid_buffer_size, with a local
\* server of the tool's version and no buffer directory on disk yet
InitAfter ==
    /\ InitWith({NoArgs} \cup { a \in CreateNewArgs \cup JoinArgs :
                                   /\ check_valid_dbname(a.dbname)
                                   /\ check_valid_buffer_size(a.buffer_size) })
    /\ srv.version = <<2, 0, 3>>
    /\ fs.buf = "absent"

\* once create_database returned, the program goes on whenever it can: each
\* network call returns, raises or times out, and the retry menu is answered
SpecAfter == InitAfter /\ [][Next]_vars /\ WF_vars(AfterCreateDatabase)

(* ----------------------------------------------------------------------- *)
(* The scripted runs: create-new, create-replica, create-pool               *)
(* ----------------------------------------------------------------------- *)
\* a run started with create-new, create-replica or create-pool
InitScripted == InitWith(CreateNewArgs \cup JoinArgs)

\* the steps the program itself takes; each network call in them returns,
\* raises or times out
ScriptedProgress ==
    \/ MainLocalInfo \/ MainChecks
    \/ ParseCreateNewCheck \/ ParseCreateNewMkPath \/ ParseCreateNewMkBufferPath
    \/ ParseCreateNewCall
    \/ CreateDatabaseCheck \/ CreateDatabaseWriteConf \/ CreateDatabaseWriteDat
    \/ CreateNewDatabase \/ CreateNewDatabaseLoad \/ CreateNewDatabaseCheckLoaded
    \/ ParseJoinPassword \/ ParseJoinRemoteInfo \/ ParseJoinCheck
    \/ ParseJoinMkPath \/ ParseJoinMkBufferPath \/ ParseJoinConnect
    \/ ParseJoinListPools \/ ParseJoinShow
    \/ CreateAndRegisterServer \/ CarsGetFile \/ CarsWriteFile \/ CarsReindex
    \/ CarsReadServers \/ CarsWriteServers \/ CarsListServers \/ CarsLoad
    \/ CarsCheckLoaded \/ CarsRegister

NextScripted ==
    \/ MainLocalInfo \/ MainChecks \/ signal_handler
    \/ ParseCreateNewCheck \/ ParseCreateNewMkPath \/ ParseCreateNewMkBufferPath
    \/ ParseCreateNewCall
    \/ CreateDatabaseCheck \/ CreateDatabaseWriteConf \/ CreateDatabaseWriteDat
    \/ CreateNewDatabase \/ CreateNewDatabaseLoad \/ CreateNewDatabaseCheckLoaded
    \/ ParseJoinPassword \/ ParseJoinRemoteInfo \/ ParseJoinCheck
    \/ ParseJoinMkPath \/ ParseJoinMkBufferPath \/ ParseJoinConnect
    \/ ParseJoinListPools \/ ParseJoinShow
    \/ CreateAndRegisterServer \/ CarsGetFile \/ CarsWriteFile \/ CarsReindex
    \/ CarsReadServers \/ CarsWriteServers \/ CarsListServers \/ CarsLoad
    \/ CarsCheckLoaded \/ CarsRegister

\* the program goes on whenever it can: nothing but a network call (which
\* ends by timeout at the latest) or the password prompt (which the user
\* answers) makes it wait
SpecScripted == InitScripted /\ [][NextScripted]_vars /\ WF_vars(ScriptedProgress)

(* ----------------------------------------------------------------------- *)
(* Runs over every candidate name: the name checks of the scripted entries  *)
(* ----------------------------------------------------------------------- *)
CandChars == {"a", "7", "-", "_", ".", "\n"}

\* first character, k fillers "a" of which the one at pos (if any) is ch,
\* last character
Candidate(f, k, pos, ch, l) ==
    <<f>> \o [i \in 1..k |-> IF i = pos THEN ch ELSE "a"] \o <<l>>

Candidates ==
    {<< >>} \cup {<<c>> : c \in CandChars}
    \cup { Candidate(f, k, 0, "a", l) : f \in CandChars, k \in 0..MaxFill, l \in CandChars }
    \cup UNION { { Candidate(f, k, pos, ch, l) :
                     f \in {"a", "7"}, pos \in {1, k}, ch \in CandChars,
                     l \in CandChars } : k \in 1..MaxFill }
    \cup { Candidate("a", k, pos, ch, "7") :
             k \in 1..MaxFill, pos \in 1..MaxFill, ch \in CandChars }

\* the state in which parse_create_new / parse_create_replica_or_pool checks
\* the name: the local info is fetched, nothing else has happened
InitName ==
    /\ pc \in {"parse_create_new", "pcr_check"}
    /\ exit_code = -1
    /\ exit_how = ""
    /\ siri = "none"
    /\ \E l \in LocalDbLists :
         /\ srv = [version |-> <<2, 0, 3>>, dblist |-> l]
         /\ local_siridb_info = SiriDBInfo(<<2, 0, 3>>, l)
    /\ IF pc = "pcr_check"
       THEN /\ remote_siridb_info = SiriDBInfo(<<2, 0, 3>>, <<NameA>>)
            /\ ghost = [NoGhost EXCEPT !.fetch_ok = TRUE, !.remote_ok = "accepted"]
       ELSE /\ remote_siridb_info = NoInfo
            /\ ghost = NoGhost
    /\ \E n \in Candidates :
         args = [NoArgs EXCEPT
                   !.action = IF pc = "pcr_check" THEN "create-pool" ELSE "create-new",
                   !.dbname = n, !.buffer_size = 2048,
                   !.time_precision = IF pc = "pcr_check" THEN "" ELSE "ms",
                   !.duration_log = IF pc = "pcr_check" THEN PyStr("") ELSE PyStr("1d"),
                   !.duration_num = IF pc = "pcr_check" THEN PyStr("") ELSE PyStr("1w")]
    /\ loc = NoLoc
    /\ fs = [db |-> "absent", dbfiles |-> {}, buf |-> "absent", buffiles |-> {}]
    /\ content = NoContent
    /\ registered = << >>

NextName == ParseCreateNewCheck \/ ParseJoinCheck

SpecName == InitName /\ [][NextName]_vars

(* ----------------------------------------------------------------------- *)
(* Runs over every duration: create_database from both of its callers       *)
(* ----------------------------------------------------------------------- *)
\* integers a remote database reports as its durations
IntDurations ==
    { PyInt(neg, FromNat(n)) : neg \in BOOLEAN, n \in 1..MaxIntDuration }
    \cup { PyInt(FALSE, << >>), PyInt(FALSE, FromNat(86400000)),
           PyInt(FALSE, <<0, 0, 0, 200, 419, 2>>) }

\* the state in which create_new_database (flow "new": spans as given on the
\* command line) or create_and_register_server (flow "join": the integers of
\* the remote database) calls create_database
InitDur ==
    /\ pc = "create_database"
    /\ exit_code = -1
    /\ exit_how = ""
    /\ local_siridb_info = SiriDBInfo(<<2, 0, 3>>, << >>)
    /\ srv = [version |-> <<2, 0, 3>>, dblist |-> << >>]
    /\ fs = [db |-> "present", dbfiles |-> {}, buf |-> "absent", buffiles |-> {}]
    /\ content = NoContent
    /\ registered = << >>
    /\ \E flow \in {"new", "join"}, tp \in 1..4 :
         \E dl, dn \in IF flow = "new" THEN {PyStr(k) : k \in DurationKeys}
                       ELSE IntDurations :
           LET props == [time_precision |-> Precisions[tp], duration_log |-> dl,
                         duration_num |-> dn, timezone |-> "NAIVE",
                         drop_threshold |-> "1.0"]
           IN
           /\ siri = IF flow = "new" THEN "none" ELSE "open"
           /\ remote_siridb_info =
                IF flow = "new" THEN NoInfo ELSE SiriDBInfo(<<2, 0, 3>>, <<NameA>>)
           /\ args =
                IF flow = "new"
                THEN [NoArgs EXCEPT !.action = "create-new", !.dbname = NameA,
                                    !.buffer_size = 2048,
                                    !.time_precision = Precisions[tp],
                                    !.duration_log = dl, !.duration_num = dn]
                ELSE [NoArgs EXCEPT !.action = "create-pool", !.dbname = NameA,
                                    !.buffer_size = 2048]
           /\ loc = [NoLoc EXCEPT
                       !.dbname = NameA, !.buffer_path = "db", !.buffer_size = 2048,
                       !.time_precision = Precisions[tp],
                       !.duration_log = dl, !.duration_num = dn,
                       !.timezone = "NAIVE", !.drop_threshold = "1.0",
                       !.flow = flow,
                       !.uuid = IF flow = "new" THEN 0 ELSE 1,
                       !.fn = IF flow = "new" THEN 0 ELSE 1,
                       !.pool = IF flow = "new" THEN -1 ELSE 1,
                       !.new_pool = flow = "join",
                       !.pools = IF flow = "new" THEN << >> ELSE << <<0, 1>> >>,
                       !.props = IF flow = "new" THEN NoProps ELSE props]
           /\ ghost = [NoGhost EXCEPT
                         !.created_db = TRUE, !.checked_db = TRUE, !.started = TRUE,
                         !.minted = IF flow = "new" THEN 0 ELSE 1,
                         !.fetch_ok = flow = "join",
                         !.remote_ok = IF flow = "new" THEN "" ELSE "accepted",
                         !.prompts = 0]

NextDur == CreateDatabaseCheck \/ CreateDatabaseWriteConf \/ CreateDatabaseWriteDat

SpecDur == InitDur /\ [][NextDur]_vars

(* ----------------------------------------------------------------------- *)
(* Properties                                                               *)
(* ----------------------------------------------------------------------- *)
Ended == pc = "exit"

\* C1: in every flow, when the load command fails (transport error or
\* timeout) after the descriptor was persisted, the database directory is
\* gone when the process ends, and the exit code is 1.
C1_LoadFailureRollsBack ==
    (Ended /\ ghost.persisted /\ ghost.failed = "load")
        => (exit_code = 1 /\ fs.db = "absent")

\* C2: in every flow, when the load was acknowledged but the re-check does
\* not find the name in the local server's list, the run ends non-zero with
\* the database directory deleted.
C2_NotLoadedRollsBack ==
    (Ended /\ ghost.load_acked /\ ghost.failed = "not loaded")
        => (exit_code # 0 /\ fs.db = "absent")

\* C3: a failure while the three remote files are fetched and written, or
\* while the local server list is read and rewritten, ends the run with the
\* database directory deleted and without any later step (status check,
\* load, registration) having run.
C3_ReplicationFailureRollsBack ==
    (Ended /\ ghost.failed = "replicate")
        => /\ fs.db = "absent"
           /\ ~InList("status", ghost.steps)
           /\ ~InList("load", ghost.steps)
           /\ ~InList("register", ghost.steps)

\* C4: when a run ends before create_database was called, no directory
\* the run created exists; a scripted create-replica whose pool already has
\* two servers ends with exit code 1.
C4_NothingLeftBeforePersisting ==
    (Ended /\ ~ghost.started)
        => /\ ~(ghost.created_db /\ fs.db = "present")
           /\ ~(ghost.created_buf /\ fs.buf = "present")
           /\ (/\ args.action = "create-replica"
               /\ exit_how = "quit_manage"
               /\ loc.pools # << >>
               /\ HasPoolId(loc.pools, args.pool)
               /\ PoolServers(loc.pools, args.pool) = 2) => exit_code = 1

\* C5: every run that rolled back ends with a non-zero exit code.
C5_RollbackExitsNonZero == (Ended /\ ghost.rolled_back) => exit_code # 0

\* C6: a run that called create_new_database or create_and_register_server
\* exits 0 only when committed: descriptor persisted, name seen in the local
\* list after the load, directory and both files there, and for a join the
\* registration call returned.
C6_ExitZeroOnlyCommitted ==
    (exit_code = 0 /\ ghost.started)
        => /\ ghost.persisted
           /\ ghost.observed
           /\ fs.db = "present"
           /\ {"database.conf", "database.dat"} \subseteq fs.dbfiles
           /\ (loc.flow = "join" => ghost.reg_ok)

\* C7: a remote snapshot with databases is accepted exactly when its
\* major.minor equals the local server's major.minor; the patch component
\* makes no difference.
C7_VersionParityMajorMinor ==
    (ghost.remote_ok # "" /\ remote_siridb_info.set /\ remote_siridb_info.dblist # << >>)
        => (ghost.remote_ok = "accepted"
              <=> MajorMinor(local_siridb_info.version)
                    = MajorMinor(remote_siridb_info.version))

\* C7 (amended): a remote snapshot with databases is accepted exactly when
\* its version equals the local server's version as a whole; a difference in
\* the patch component alone is rejected like any other.
C7_VersionEquality ==
    (ghost.remote_ok # "" /\ remote_siridb_info.set /\ remote_siridb_info.dblist # << >>)
        => (ghost.remote_ok = "accepted"
              <=> local_siridb_info.version = remote_siridb_info.version)

C7_Witness ==
    /\ ghost.remote_ok = "rejected"
    /\ remote_siridb_info.set
    /\ remote_siridb_info.dblist # << >>
    /\ local_siridb_info.version = <<2, 0, 3>>
    /\ remote_siridb_info.version = <<2, 0, 9>>

ClaimedValidName(s) ==
    /\ Len(s) >= 2
    /\ Len(s) <= 20
    /\ s[1] \in Letters
    /\ s[Len(s)] \in Letters \cup Digits
    /\ \A i \in 2..(Len(s) - 1) : s[i] \in Letters \cup Digits \cup {"-", "_"}

\* C8: check_dbname accepts a candidate exactly when its length is 2..20,
\* it starts with a letter, ends with a letter or digit, has only letters,
\* digits, '-' and '_' in between, is not in the local list, and the local
\* list holds fewer than 4 databases.
C8_NameAcceptedIff ==
    LET claimed == /\ ClaimedValidName(args.dbname)
                   /\ ~InList(args.dbname, local_siridb_info.dblist)
                   /\ Len(local_siridb_info.dblist) < 4
    IN  /\ pc \in {"pcn_mk_path", "pcr_mk_path"} => claimed
        /\ Ended => ~claimed

\* v is base * 1000^p: dividing v by 1000 p times leaves no remainder and
\* ends at base
IsScaled(v, base, p) ==
    /\ v.isint
    /\ ~v.neg
    /\ Len(v.mag) > p
    /\ \A i \in 1..p : v.mag[i] = 0
    /\ ToNat(SubSeq(v.mag, p + 1, Len(v.mag))) = base

Written == pc \in {"cnd_load", "cars_get_file"}

\* C9: for every span of the duration table and every time precision p, the
\* descriptor create-new persists holds base seconds * 1000^p for both
\* durations and schema version 1; with ms, 1d and 1w that is 86400000 and
\* 604800000.
C9_DurationsScaled ==
    (Written /\ loc.flow = "new")
        => LET d == content.database_dat
               p == get_time_precision(args.time_precision)
           IN  /\ d.schema = 1
               /\ d.time_precision = p
               /\ IsScaled(d.duration_num, DURATIONS[args.duration_num.str], p)
               /\ IsScaled(d.duration_log, DURATIONS[args.duration_log.str], p)
               /\ (/\ args.time_precision = "ms"
                   /\ args.duration_log.str = "1d"
                   /\ args.duration_num.str = "1w")
                    => /\ ToNat(d.duration_log.mag) = 86400000
                       /\ ToNat(d.duration_num.mag) = 604800000

C9_Witness ==
    /\ Written
    /\ loc.flow = "new"
    /\ args.time_precision = "ns"
    /\ args.duration_num.str = "4w"
    /\ content.database_dat.duration_num.mag = <<0, 0, 0, 200, 419, 2>>

\* C10: an integer duration goes through get_duration unchanged for every
\* integer and every time precision, so resolving the stored value again
\* gives the stored value.
C10_IntegerPassThrough ==
    (Written /\ loc.flow = "join")
        => LET d == content.database_dat IN
           /\ d.duration_num = loc.props.duration_num
           /\ d.duration_log = loc.props.duration_log
           /\ get_duration(loc.tp, d.duration_num) = d.duration_num
           /\ get_duration(loc.tp, d.duration_log) = d.duration_log

C10_Witness ==
    /\ Written
    /\ loc.flow = "join"
    /\ loc.tp = 3
    /\ loc.props.duration_num = PyInt(TRUE, <<2>>)
    /\ content.database_dat.duration_num = PyInt(TRUE, <<2>>)

\* C11: in the interactive and in the scripted new-pool flow, the pool id
\* given to the new server (in the call of create_and_register_server, in
\* the record appended to servers.dat and in the record sent for
\* registration) is the number of pools of the fetched pool snapshot.
C11_NewPoolIdIsCount ==
    (loc.flow = "join" /\ loc.new_pool)
        => /\ loc.pool = Len(loc.pools)
           /\ (loc.server # NoServer => loc.server.pool = Len(loc.pools))
           /\ \A i \in 1..Len(registered) : registered[i].pool = Len(loc.pools)
           /\ (InList("replicate", ghost.steps) /\ fs.db = "present")
                => content.servers_dat[Len(content.servers_dat)].pool = Len(loc.pools)

C11_Witness ==
    /\ loc.flow = "join"
    /\ loc.new_pool
    /\ args.action = "create-pool"
    /\ loc.pools = << <<1, 1>>, <<0, 2>> >>
    /\ Len(registered) = 1
    /\ registered[1].pool = 2

\* C12: in the interactive and in the scripted replica flow,
\* create_and_register_server is entered with target pool P only when the
\* fetched pool snapshot lists P with exactly one server; a scripted run
\* whose target is absent from the snapshot or has two servers ends non-zero
\* with nothing persisted.
C12_ReplicaTargetEligible ==
    /\ (loc.flow = "join" /\ ~loc.new_pool)
          => \E i \in 1..Len(loc.pools) : loc.pools[i] = <<loc.pool, 1>>
    /\ (/\ Ended
        /\ args.action = "create-replica"
        /\ loc.pools # << >>
        /\ ~(\E i \in 1..Len(loc.pools) : loc.pools[i] = <<args.pool, 1>>))
          => /\ exit_code # 0
             /\ ~ghost.started
             /\ ~ghost.persisted
             /\ content = NoContent

C12_Witness ==
    /\ loc.flow = "join"
    /\ ~loc.new_pool
    /\ ghost.persisted
    /\ args.action = "create-replica"
    /\ loc.pools = << <<1, 1>>, <<0, 2>> >>
    /\ loc.pool = 1

\* C13: in a join flow the registration call is made only when every server
\* of the 'list servers name, status' result had status "running"; when
\* some server had another status the run ends non-zero with the database
\* directory deleted and no registration call made.
C13_RegistrationNeedsAllRunning ==
    /\ (ghost.reg_attempts > 0 \/ registered # << >>)
          => /\ ghost.status_seen
             /\ \A i \in 1..Len(loc.status) : loc.status[i][2] = "running"
    /\ (/\ ghost.status_seen
        /\ \E i \in 1..Len(loc.status) : loc.status[i][2] # "running")
          => /\ Ended
             /\ exit_code # 0
             /\ ghost.rolled_back
             /\ fs.db = "absent"
             /\ ghost.reg_attempts = 0
             /\ registered = << >>

C13_Witness ==
    /\ Ended
    /\ ghost.rolled_back
    /\ exit_code = 1
    /\ fs.db = "absent"
    /\ loc.status = << <<"s0", "running">>, <<"s1", "synchronizing">> >>
    /\ ghost.reg_attempts = 0

ScriptedJoin == args.action \in {"create-replica", "create-pool"}

\* C14: in a scripted join the registration call is made at most once and
\* the user is never prompted; a failed registration ends the run at once
\* with the database directory deleted and exit code 1.
C14_ScriptedNeverPrompts ==
    ScriptedJoin
        => /\ ghost.reg_attempts <= 1
           /\ ghost.prompts = 0
           /\ ghost.failed = "register"
                => (Ended /\ ghost.rolled_back /\ fs.db = "absent" /\ exit_code = 1)

\* C14 (amended): in a scripted join the registration call is made at most
\* once and the retry menu is never shown: the only prompt of the run is the
\* one for the password, at the start, when --password was left empty; a
\* failed registration ends the run at once with the database directory
\* deleted and exit code 1.
C14_ScriptedRegistersOnce ==
    ScriptedJoin
        => /\ ghost.reg_attempts <= 1
           /\ pc # "cars_retry_menu"
           /\ ghost.prompts <= 1
           /\ ghost.prompts = 1 => ~args.password
           /\ ghost.started => ghost.prompts = (IF args.password THEN 0 ELSE 1)
           /\ ghost.failed = "register"
                => (Ended /\ ghost.rolled_back /\ fs.db = "absent" /\ exit_code = 1)

C14_Witness ==
    /\ ScriptedJoin
    /\ ~args.password
    /\ ghost.prompts = 1
    /\ ghost.failed = "register"
    /\ ghost.reg_attempts = 1
    /\ Ended
    /\ exit_code = 1
    /\ fs.db = "absent"

\* C15: in the interactive join, however many registration attempts fail,
\* every attempt submits the same record (uuid, address, backend port, pool),
\* which is the one appended to the local servers.dat; a run that left the
\* retry menu without a successful registration and without ctrl+c has
\* rolled back.
C15_RetryResubmitsSameRecord ==
    (args.action = "menu" /\ loc.flow = "join")
        => /\ Len(ghost.submitted) = ghost.reg_attempts
           /\ \A i \in 1..Len(ghost.submitted) :
                /\ ghost.submitted[i] = ghost.submitted[1]
                /\ ghost.submitted[i] =
                       [uuid |-> loc.uuid, address |-> ServerAddress,
                        port |-> BackendPort, pool |-> loc.pool]
           /\ (ghost.submitted # << >> /\ fs.db = "present")
                => content.servers_dat[Len(content.servers_dat)] = ghost.submitted[1]
           /\ pc = "cars_retry_menu"
                => (ghost.failed = "register" /\ ghost.reg_attempts >= 1)
           /\ (Ended /\ ghost.failed = "register" /\ ~ghost.reg_ok /\ exit_code # 2)
                => (ghost.rolled_back /\ fs.db = "absent")

C15_Witness ==
    /\ args.action = "menu"
    /\ loc.flow = "join"
    /\ ghost.reg_attempts = 3
    /\ ghost.submitted[3] = ghost.submitted[1]
    /\ ghost.reg_ok
    /\ Ended

\* C16: once ctrl+c arrived, in whatever state of the run, the process has
\* ended through quit_manage with exit code 2, no connection is left open,
\* and the run never rolls back.
C16_InterruptExitsTwo ==
    ghost.sigint
        => /\ Ended
           /\ exit_code = 2
           /\ exit_how = "quit_manage"
           /\ siri # "open"
           /\ ~ghost.rolled_back

\* C17: in the interactive join, while the info fetch for the address
\* entered last has failed, the run is at the address prompt again (or has
\* ended): the database menu is not shown and nothing later happens.
C17_FailedFetchDoesNotAdvance ==
    (args.action = "menu" /\ ghost.addr_attempts > 0 /\ ~ghost.fetch_ok)
        => pc \in {"jd_ask_address", "exit"}

\* the join has left the fetch of the remote info behind: the scripted entry
\* has checked the name and is about to create the directory or further,
\* the menu has a database picked and is about to connect or further
PastFetchingRemote ==
    \/ /\ ScriptedJoin
       /\ pc \in {"pcr_mk_path", "pcr_mk_buffer_path", "pcr_connect",
                   "pcr_list_pools", "pcr_show"}
    \/ /\ args.action = "menu"
       /\ pc \in {"jd_connect", "jd_mk_path", "jd_ask_buffer_path", "jd_list_pools",
                   "pool_or_replica", "cnr_menu", "cjd_show", "cjd_confirm"}
    \/ loc.flow = "join"

\* the name of the database the join is for
JoinTarget == IF ScriptedJoin THEN args.dbname ELSE loc.dbname

\* C18: from both entry points, a join that has left the remote fetch behind
\* holds a remote snapshot with a non-empty database list and the local
\* server's version, and the database it joins is in that list.
C18_JoinTargetInRemoteList ==
    PastFetchingRemote
        => /\ remote_siridb_info.set
           /\ remote_siridb_info.dblist # << >>
           /\ remote_siridb_info.version = local_siridb_info.version
           /\ InList(JoinTarget, remote_siridb_info.dblist)

\* C19: when the major.minor of the local server differs from the tool's,
\* the run is still at the checks of __main__ or has ended, with a non-zero
\* exit code: no menu and no sub-command ran, nothing was asked, no
\* directory or file was created and no remote connection was opened.
C19_ToolVersionMismatchIsFatal ==
    (/\ local_siridb_info.set
     /\ MajorMinor(local_siridb_info.version) # MajorMinor(ToolVersion))
        => /\ pc \in {"main_checks", "exit"}
           /\ Ended => exit_code # 0
           /\ siri = "none"
           /\ remote_siridb_info = NoInfo
           /\ loc = NoLoc
           /\ content = NoContent
           /\ ~ghost.created_db
           /\ ~ghost.created_buf
           /\ ~ghost.checked_db
           /\ ~ghost.started
           /\ ghost.prompts = 0
           /\ ghost.addr_attempts = 0

C19_Witness ==
    /\ Ended
    /\ exit_code = 2
    /\ exit_how = "quit_manage"
    /\ ~ghost.sigint
    /\ local_siridb_info.set
    /\ local_siridb_info.version = <<2, 1, 0>>

\* the positions at which mk_path(dbpath) is called
DbMkPathLabels == {"pcn_mk_path", "pcr_mk_path", "form_mk_path", "jd_mk_path"}

\* a step of the run, as C20 wants it (ctrl+c, which exits with 2, aside)
C20_Step ==
    /\ (pc \in DbMkPathLabels /\ exit_code' # 2)
          => LET passed == pc' # "exit" IN
             /\ passed <=> (fs.db = "absent" \/ fs.dbfiles = {})
             /\ passed => (fs'.db = "present" /\ fs'.dbfiles = {} /\ ghost'.checked_db)
             /\ passed => (ghost'.created_db <=> fs.db = "absent")
             /\ ~passed => (fs' = fs /\ ~ghost'.checked_db)
    /\ (fs'.dbfiles \ fs.dbfiles) \cap {"database.conf", "database.dat"} # {}
          => /\ ghost.checked_db
             /\ fs.db = "present"
             /\ fs.dbfiles \subseteq {"database.conf"}

\* C20: mk_path(dbpath) returns exactly when the directory is absent (it is
\* then created) or present and empty, and otherwise raises with the
\* directory as it was; in every flow database.conf and database.dat are
\* written only after mk_path(dbpath) returned in this run, into a directory
\* that held nothing else.
C20_PreCheckedDirectory == [][C20_Step]_vars

C20_Witness ==
    /\ ghost.checked_db
    /\ ghost.created_db
    /\ {"database.conf", "database.dat"} \subseteq fs.dbfiles
    /\ args.action = "menu"
    /\ loc.flow = "join"

\* C21: once create_database has ended, by returning or by an exception
\* while it wrote, the database directory holds both database.conf and
\* database.dat or neither of them.
C21_BothFilesOrNeither ==
    (ghost.persisted \/ ghost.failed = "persist")
        => ("database.conf" \in fs.dbfiles <=> "database.dat" \in fs.dbfiles)

\* a step of a run that has persisted the descriptor and leaves
\* database.dat in place
C22_Step ==
    (ghost.persisted /\ "database.dat" \in fs'.dbfiles)
        => /\ content'.database_dat = content.database_dat
           /\ content'.database_conf = content.database_conf
           /\ {"database.conf", "database.dat"} \subseteq fs'.dbfiles
           /\ content'.database_dat.uuid = loc'.uuid
           /\ content'.database_dat.dbname = loc'.dbname
           /\ content'.database_dat.time_precision = loc'.tp

\* C22: once create_database returned, no later step of the run (fetch and
\* write of the three files, .reindex, servers.dat, status check, load,
\* re-check, registration, retry) writes database.dat or database.conf:
\* while the file exists its uuid, name and time precision stay as persisted.
C22_DescriptorNotRewritten == [][C22_Step]_vars

C22_Witness ==
    /\ ghost.persisted
    /\ loc.flow = "join"
    /\ ghost.reg_attempts = 2
    /\ pc = "cars_retry_menu"
    /\ "database.dat" \in fs.dbfiles
    /\ content.database_dat.uuid = loc.uuid
    /\ content.database_dat.dbname = NameA

\* the join flow has rewritten servers.dat and the directory is still there
Replicated == loc.flow = "join" /\ InList("replicate", ghost.steps) /\ fs.db = "present"

\* C23: once the join flow has rewritten servers.dat, the file holds the
\* records fetched from the remote, in their order, followed by one new
\* record (the uuid of this run, the configured address, the backend port,
\* the assigned pool) whose uuid occurs nowhere else in the list, and
\* users.dat and groups.dat hold the bytes fetched from the remote.
C23_ServerListIsRemotePlusOne ==
    Replicated
        => LET list == content.servers_dat
               n == Len(ghost.remote_servers)
           IN  /\ Len(list) = n + 1
               /\ SubSeq(list, 1, n) = ghost.remote_servers
               /\ list[n + 1] = [uuid |-> loc.uuid, address |-> ServerAddress,
                                 port |-> BackendPort, pool |-> loc.pool]
               /\ content.database_dat.uuid = list[n + 1].uuid
               /\ \A i \in 1..n : list[i].uuid # list[n + 1].uuid
               /\ content.users_dat = RemoteBytes[2]
               /\ content.groups_dat = RemoteBytes[3]
               /\ {"servers.dat", "users.dat", "groups.dat"} \subseteq fs.dbfiles

C23_Witness ==
    /\ Replicated
    /\ ghost.remote_servers = <<RemoteServer(1), RemoteServer(2)>>
    /\ Len(content.servers_dat) = 3
    /\ content.servers_dat[3].pool = 2
    /\ content.servers_dat[3].uuid = loc.uuid

\* the run creates a brand-new pool: create-pool, or 'p' in the menu
NewPoolRun == IF ScriptedJoin THEN args.action = "create-pool" ELSE loc.new_pool

\* C24: in a join flow, once servers.dat was rewritten, .reindex is in the
\* database directory exactly when the run creates a new pool; a replica
\* run has no .reindex at any time.
C24_ReindexIffNewPool ==
    /\ Replicated => (".reindex" \in fs.dbfiles <=> NewPoolRun)
    /\ (loc.flow = "join" /\ ~NewPoolRun) => ".reindex" \notin fs.dbfiles
    /\ (loc.flow = "join" /\ NewPoolRun) => loc.pool = Len(loc.pools)

C24_Witness ==
    /\ Replicated
    /\ args.action = "create-replica"
    /\ ".reindex" \notin fs.dbfiles
    /\ {"servers.dat", "users.dat", "groups.dat"} \subseteq fs.dbfiles

\* the order of the steps of a join as the claim has it
ClaimedJoinOrder == <<"persist", "replicate", "load", "ready", "status", "register">>

\* C25: in every join run the completed steps are, in this order: descriptor
\* persisted, metadata replicated and server record appended, load command
\* acknowledged, readiness confirmed, all-servers-running check, registration.
C25_JoinStepsInOrder ==
    loc.flow = "join"
        => /\ Len(ghost.steps) <= Len(ClaimedJoinOrder)
           /\ ghost.steps = SubSeq(ClaimedJoinOrder, 1, Len(ghost.steps))

C27_RecheckFetchFailureRollsBack ==
    (Ended /\ loc.flow = "join" /\ ghost.failed = "recheck")
        => (ghost.rolled_back /\ fs.db = "absent" /\ exit_code # 0)

\* C28: in every flow the buffer_size of the persisted descriptor is the
\* buffer size the caller supplied (flag or prompt) and that passed
\* check_valid_buffer_size.
C28_DescriptorKeepsBufferSize ==
    (ghost.persisted /\ "database.dat" \in fs.dbfiles)
        => content.database_dat.buffer_size = loc.buffer_size

\* C29: after a rollback no directory the run created is on disk, neither the
\* database directory nor a buffer directory the run created.
C29_RollbackRemovesCreatedDirectories ==
    ghost.rolled_back
        => /\ ~(ghost.created_db /\ fs.db = "present")
           /\ ~(ghost.created_buf /\ fs.buf = "present")

\* C30: no flow enters create_database (Persisting) while the local server
\* info lists the maximum number of databases or lists the target name.
C30_NoPersistingWhenFullOrDuplicate ==
    pc = "create_database"
        => /\ Len(local_siridb_info.dblist) < MAX_NUMBER_DB
           /\ ~InList(loc.dbname, local_siridb_info.dblist)

\* C31: a join run mints one uuid: the uuid in the persisted descriptor, the
\* uuid of the record appended to the local servers.dat and the uuid of the
\* record sent with every registration attempt are that one uuid.
C31_SingleUuidPerJoin ==
    loc.flow = "join"
        => /\ ghost.minted = 1
           /\ loc.uuid = ghost.minted
           /\ (ghost.persisted /\ "database.dat" \in fs.dbfiles)
                => content.database_dat.uuid = loc.uuid
           /\ Replicated
                => content.servers_dat[Len(content.servers_dat)].uuid = loc.uuid
           /\ \A i \in 1..Len(ghost.submitted) : ghost.submitted[i].uuid = loc.uuid

C31_Witness ==
    /\ Ended
    /\ loc.flow = "join"
    /\ exit_code = 0
    /\ Len(ghost.submitted) >= 2
    /\ content.database_dat.uuid = ghost.submitted[2].uuid
    /\ content.servers_dat[Len(content.servers_dat)].uuid = ghost.submitted[1].uuid

\* the positions of the control flow after create_database returned
PostPersistLabels ==
    {"cnd_load", "cnd_check_loaded", "cars_get_file", "cars_write_file",
     "cars_reindex", "cars_read_servers", "cars_write_servers",
     "cars_list_servers", "cars_load", "cars_check_loaded", "cars_register",
     "cars_retry_menu", "exit"}

PersistCount == Cardinality({ i \in 1..Len(ghost.steps) : ghost.steps[i] = "persist" })

C32_Step ==
    ghost.persisted
        => /\ ghost'.persisted
           /\ pc' \in PostPersistLabels
           /\ PersistCount' = PersistCount

====
